---- MODULE Spec2Model ----
(***************************************************************************)
(* Model of the Koura Wealth -> Ghostfolio synchroniser (SyncKoura.py).    *)
(*                                                                         *)
(* Python dicts are functions whose DOMAIN is the set of keys present, so  *)
(* act.get(k) / act[k] distinguish an absent key from a present one.       *)
(* Strings that the code slices or searches (date, comment, numeric        *)
(* literals) are sequences of one-character strings.  Numbers are integers *)
(* in thousandths (1.0 is 1000).  A call that can raise returns            *)
(* [ok |-> FALSE, err |-> ...]; one that returns normally [ok |-> TRUE,    *)
(* val |-> ...].                                                           *)
(***************************************************************************)
EXTENDS Integers, Sequences, FiniteSets, TLC

VARIABLES
    \* ---- SyncKoura instance and the two remote systems (sync_koura) ----
    pc,              \* position of the running sync_koura pass
    pass,            \* number of passes started
    clock,           \* wall clock, in steps of 5 s since 2024-01-01T00:00:00
    account_id,      \* self.account_id (NoAccount stands for None)
    koura_token,     \* self.koura_token ("" stands for None)
    config,          \* ghost_key and ghost_token as main.py hands them to SyncKoura(...)
    ghost_token,     \* self.ghost_token ("" before it is assigned)
    fund_mapping,    \* self.fund_mapping after __init__
    portfolio_funds, \* holdings the brokerage reports (unchanged upstream)
    ledger_accounts, \* accounts held by the ledger
    ledger_acts,     \* activities held by the ledger
    activities,      \* local: reconstructed candidates of the pass
    existing_acts,   \* local: result of get_all_acts_for_account
    diff,            \* local: result of get_diff in the pass
    page,            \* get_all_koura_transactions: page
    all_transactions, \* get_all_koura_transactions: len(all_transactions)
    chunks,          \* import_act: chunks not yet sent
    reqs,            \* remote requests issued in the current pass, with outcome
    history,         \* per pass: the diff computed and the activities the ledger accepted
    \* ---- inputs and results of the pure functions checked on their own ----
    old_acts,        \* get_diff: old_acts
    new_acts,        \* get_diff: new_acts
    step,            \* which call has been applied to the inputs
    out1,            \* result of the first call
    out2             \* result of the second call

vars == <<pc, pass, clock, account_id, koura_token, config, ghost_token, fund_mapping, portfolio_funds,
          ledger_accounts, ledger_acts, activities, existing_acts, diff,
          page, all_transactions, chunks, reqs, history,
          old_acts, new_acts, step, out1, out2>>

syncVars == <<pc, pass, clock, account_id, koura_token, config, ghost_token, ledger_accounts, ledger_acts,
              activities, existing_acts, diff, page, all_transactions, chunks, reqs,
              history>>

pureVars == <<old_acts, new_acts, step, out1, out2>>

(***************************************************************************)
(* Python values                                                           *)
(***************************************************************************)
Ok(v) == [ok |-> TRUE, val |-> v]

Raise(e) == [ok |-> FALSE, err |-> e]

None == [ok |-> FALSE, err |-> "None"]

Has(d, k) == k \in DOMAIN d

EmptyDict == [k \in {} |-> k]

Min(a, b) == IF a < b THEN a ELSE b

Abs(x) == IF x < 0 THEN -x ELSE x

\* a slice one character too long
Slice0_long(s, n) == SubSeq(s, 1, Min(n + 1, Len(s)))

\* s[0:n]
Slice0(s, n) == SubSeq(s, 1, Min(n, Len(s)))

\* A JSON number (thousandths) and a JSON string holding a numeric literal.
Num(n) == [t |-> "num", n |-> n, s |-> <<>>]

Str(s) == [t |-> "str", n |-> 0, s |-> s]

Digits == <<"0", "1", "2", "3", "4", "5", "6", "7", "8", "9">>

DigitVal(c) == (CHOOSE i \in 1..10 : Digits[i] = c) - 1

RECURSIVE IntOf(_)
\* value of a run of decimal digits
IntOf(s) == IF s = <<>> THEN 0 ELSE 10 * IntOf(SubSeq(s, 1, Len(s) - 1)) + DigitVal(s[Len(s)])

IndexOf(s, c) == IF \E i \in 1..Len(s) : s[i] = c THEN CHOOSE i \in 1..Len(s) : s[i] = c /\ \A j \in 1..(i - 1) : s[j] # c ELSE 0

\* float("[-]ddd[.ddd]") in thousandths
ParseFloat(s) ==
    LET neg  == s # <<>> /\ s[1] = "-"
        body == IF neg THEN Tail(s) ELSE s
        dot  == IndexOf(body, ".")
        ip   == IF dot = 0 THEN body ELSE SubSeq(body, 1, dot - 1)
        fp   == IF dot = 0 THEN <<>> ELSE SubSeq(body, dot + 1, Len(body))
        fp3  == SubSeq(fp \o <<"0", "0", "0">>, 1, 3)
        mag  == 1000 * IntOf(ip) + IntOf(fp3)
    IN  IF neg THEN -mag ELSE mag

\* float(x): a number is kept, a string is parsed
Float(x) == IF x.t = "str" THEN ParseFloat(x.s) ELSE x.n

(***************************************************************************)
(* Normalizers                                                             *)
(***************************************************************************)
Transaction(act, symbol) ==
    [accountId |-> act.accountId,
     date      |-> Slice0(act.date, 18),
     fee       |-> Abs(Float(act.fee)),
     quantity  |-> Abs(Float(act.quantity)),
     symbol    |-> symbol,
     type      |-> act.type,
     unitPrice |-> act.unitPrice]

format_existing_act(act) ==
    LET profile == IF Has(act, "SymbolProfile") THEN act.SymbolProfile ELSE [symbol |-> ""]
        nested  == IF Has(profile, "symbol") THEN Ok(profile.symbol) ELSE None
    IN  IF ~nested.ok \/ nested.val = ""
        THEN \* the warning's arguments read act["id"]
             IF ~Has(act, "id") THEN Raise("KeyError")
             ELSE Ok(Transaction(act, IF Has(act, "symbol") THEN act.symbol ELSE ""))
        ELSE Ok(Transaction(act, nested.val))

format_new_act(act) ==
    Ok(Transaction(act, IF Has(act, "symbol") THEN act.symbol ELSE ""))

(***************************************************************************)
(* Identity extraction and diff                                            *)
(***************************************************************************)
Marker == <<"t", "r", "a", "n", "s", "a", "c", "t", "i", "o", "n", "I", "d", "=">>

\* positions where "transactionId=" is followed by at least one non-pipe character
MatchStarts(c) ==
    {i \in 1..Len(c) :
        /\ i + Len(Marker) <= Len(c)
        /\ SubSeq(c, i, i + Len(Marker) - 1) = Marker
        /\ c[i + Len(Marker)] # "|"}

\* the search taking everything after the marker, pipes included
re_search_to_end(c) ==
    IF MatchStarts(c) = {} THEN None
    ELSE LET i == CHOOSE k \in MatchStarts(c) : \A m \in MatchStarts(c) : k <= m
         IN  Ok(SubSeq(c, i + Len(Marker), Len(c)))

\* re.search(r"transactionId=([^|]+)", comment): group(1) of the leftmost match
re_search(c) ==
    IF MatchStarts(c) = {} THEN None
    ELSE LET i  == CHOOSE k \in MatchStarts(c) : \A m \in MatchStarts(c) : k <= m
             b  == i + Len(Marker)
             e  == CHOOSE k \in b..Len(c) :
                      /\ \A m \in b..k : c[m] # "|"
                      /\ (k = Len(c) \/ c[k + 1] = "|")
         IN  Ok(SubSeq(c, b, e))

\* the transactionId of an activity's comment, if any
transaction_id(act) ==
    IF Has(act, "comment") THEN re_search(act.comment) ELSE None

RECURSIVE legacy(_, _, _)
\* the legacy comparison loop of is_act_present, from existing_acts[i] on
legacy(new_act, acts, i) ==
    IF i > Len(acts) THEN Ok(FALSE)
    ELSE LET formatted_act == format_existing_act(acts[i])
             formatted_new_act == format_new_act(new_act)
         IN  IF ~formatted_act.ok THEN Raise(formatted_act.err)
             ELSE IF formatted_act = formatted_new_act THEN Ok(TRUE)
             ELSE legacy(new_act, acts, i + 1)

\* is_act_present without the identifier comparison
is_act_present_legacy_only(new_act, acts, synced_acts_ids) == legacy(new_act, acts, 1)

is_act_present(new_act, acts, synced_acts_ids) ==
    LET tid == transaction_id(new_act)
    IN  IF tid.ok /\ tid.val \in synced_acts_ids THEN Ok(TRUE)
        ELSE legacy(new_act, acts, 1)

\* the first loop also adding the whole comment of an activity without identifier
synced_ids_with_comments(acts) ==
    {IF transaction_id(acts[i]).ok THEN transaction_id(acts[i]).val ELSE acts[i].comment :
        i \in {j \in 1..Len(acts) : Has(acts[j], "comment")}}

\* the first loop of get_diff: synced_acts_ids
synced_ids(acts) ==
    {transaction_id(acts[i]).val : i \in {j \in 1..Len(acts) : transaction_id(acts[j]).ok}}

RECURSIVE diff_loop(_, _, _, _, _)
\* the second loop of get_diff, from new_acts[i] on
diff_loop(olds, news, ids, i, acc) ==
    IF i > Len(news) THEN Ok(acc)
    ELSE LET p == is_act_present(news[i], olds, ids)
         IN  IF ~p.ok THEN Raise(p.err)
             ELSE diff_loop(olds, news, ids, i + 1, IF p.val THEN acc ELSE Append(acc, news[i]))

get_diff(olds, news) == diff_loop(olds, news, synced_ids(olds), 1, <<>>)

(***************************************************************************)
(* Strings of the two wire formats                                         *)
(***************************************************************************)
TwoDigits(n) == <<Digits[(n \div 10) + 1], Digits[(n % 10) + 1]>>

\* "2024-01-01T00:" : the part of a timestamp the model keeps fixed
DayPrefix == <<"2", "0", "2", "4", "-", "0", "1", "-", "0", "1", "T", "0", "0", ":">>

\* datetime.isoformat() of the instant t seconds after 2024-01-01T00:00:00
\* (microsecond 1: "YYYY-MM-DDTHH:MM:SS.ffffff")
isoformat(t) ==
    DayPrefix \o TwoDigits(t \div 60) \o <<":">> \o TwoDigits(t % 60)
              \o <<".", "0", "0", "0", "0", "0", "1">>

\* the ledger's rendering of the same instant ("YYYY-MM-DDTHH:MM:SSZ")
zulu(t) == DayPrefix \o TwoDigits(t \div 60) \o <<":">> \o TwoDigits(t % 60) \o <<"Z">>

C_note == <<"n", "o", "t", "e", "|">>

C_more == <<"|", "m", "o", "r", "e">>

ABC123 == <<"A", "B", "C", "1", "2", "3">>

ZZZ == <<"Z", "Z", "Z">>

\* "note|transactionId=ABC123|more"
C_existing_tag == C_note \o Marker \o ABC123 \o C_more

\* "x|transactionId=ABC123"
C_candidate_tag == <<"x", "|">> \o Marker \o ABC123

\* "transactionId=ZZZ"
C_other_tag == Marker \o ZZZ

\* "transactionId=|x" : a marker with no value
C_malformed == Marker \o <<"|", "x">>

\* "Current holdings"
C_plain == <<"C", "u", "r", "r", "e", "n", "t", " ", "h", "o", "l", "d", "i", "n", "g", "s">>

(***************************************************************************)
(* Activities the diff is exercised on                                     *)
(***************************************************************************)
Fields(date, fee, quantity, symbolFields) ==
    [accountId |-> <<"a", "c", "c", "1">>, date |-> date, fee |-> fee, quantity |-> quantity,
     type |-> "BUY", unitPrice |-> Num(10000)] @@ symbolFields

Nested(sym) == [SymbolProfile |-> [symbol |-> sym, name |-> "fund", currency |-> "NZD"]]

Flat(sym) == [symbol |-> sym]

WithId(i) == [id |-> i]

WithComment(c) == [comment |-> c]

\* ledger-shaped, no comment (a record that predates identifier tagging)
o_legacy == Fields(zulu(0), Str(<<"0">>), Str(<<"-", "5", ".", "0">>), Nested("GF_KOURABTC")) @@ WithId("id1")

\* ledger-shaped, tagged with transactionId=ABC123
o_tagged == Fields(zulu(0), Num(1000), Num(7000), Nested("GF_KOURABTC")) @@ WithId("id2") @@ WithComment(C_existing_tag)

\* candidate-shaped: flat symbol, no id, no nested profile
o_flat_noid == Fields(isoformat(0), Num(0), Num(5000), Flat("GF_KOURABTC"))

\* flat symbol with an id
o_flat_id == Fields(zulu(0), Num(0), Num(6000), Flat("GF_KOURABTC")) @@ WithId("id3")

\* ledger-shaped with a malformed identifier annotation
o_malformed == Fields(zulu(0), Num(0), Num(8000), Nested("GF_KOURABTC")) @@ WithId("id4") @@ WithComment(C_malformed)

OldPool == {o_legacy, o_tagged, o_flat_noid, o_flat_id, o_malformed}

\* no comment; field-equal to o_legacy after normalization
n_plain == Fields(isoformat(0), Num(0), Num(5000), Flat("GF_KOURABTC"))

\* carries transactionId=ABC123, differs from every existing activity in fee and quantity
n_tagged == Fields(isoformat(0), Num(1500), Num(9000), Flat("GF_KOURABTC")) @@ WithComment(C_candidate_tag)

\* carries an identifier nobody synced; field-equal to o_legacy
n_other_tag == Fields(isoformat(0), Num(0), Num(5000), Flat("GF_KOURABTC")) @@ WithComment(C_other_tag)

\* a comment without marker, equal to no existing activity
n_fresh == Fields(isoformat(0), Num(0), Num(8000), Flat("GF_KOURACASH")) @@ WithComment(C_plain)

\* as n_fresh, carrying an id
n_fresh_id == Fields(isoformat(0), Num(0), Num(8500), Flat("GF_KOURACASH")) @@ WithId("c1")

NewPool == {n_plain, n_tagged, n_other_tag, n_fresh, n_fresh_id}

MaxOld == 2

MaxNew == 2

SeqsUpTo(S, n) == UNION {[1..k -> S] : k \in 0..n}

Range(s) == {s[i] : i \in 1..Len(s)}

NotRun == [ok |-> FALSE, err |-> "not run"]

(***************************************************************************)
(* SpecDiff: get_diff applied to bounded inputs, then re-applied with its  *)
(* result appended to the existing activities                              *)
(***************************************************************************)
\* accountId of a reconstructed activity before the orchestrator sets it,
\* and self.account_id before it is resolved: None (equal to no string)
NoAccount == <<"<None>">>

\* a ghost_token handed to SyncKoura(...) that is None
NoToken == "<None>"

\* GHOST_TOKEN set, GHOST_KEY not
TokenSupplied == [ghost_key |-> "", ghost_token |-> "tok"]

\* a constructed instance on which no pass has run, and an empty ledger
InstanceIdle ==
    /\ pc = "idle" /\ pass = 0 /\ clock = 0
    /\ account_id = NoAccount /\ koura_token = ""
    /\ config = TokenSupplied /\ ghost_token = "tok"
    /\ ledger_accounts = <<>> /\ ledger_acts = <<>>
    /\ activities = <<>> /\ existing_acts = <<>> /\ diff = <<>>
    /\ page = 1 /\ all_transactions = 0
    /\ chunks = <<>> /\ reqs = <<>> /\ history = <<>>

SyncIdle == InstanceIdle /\ fund_mapping = EmptyDict /\ portfolio_funds = <<>>

InitDiff ==
    /\ SyncIdle
    /\ old_acts \in SeqsUpTo(OldPool, MaxOld)
    /\ new_acts \in SeqsUpTo(NewPool, MaxNew)
    /\ step = "input" /\ out1 = NotRun /\ out2 = NotRun

Diff ==
    /\ step = "input"
    /\ out1' = get_diff(old_acts, new_acts)
    /\ step' = "diffed"
    /\ UNCHANGED <<old_acts, new_acts, out2, syncVars, fund_mapping, portfolio_funds>>

AppendAndDiff ==
    /\ step = "diffed" /\ out1.ok
    /\ old_acts' = old_acts \o out1.val
    /\ out2' = get_diff(old_acts \o out1.val, new_acts)
    /\ step' = "rediffed"
    /\ UNCHANGED <<new_acts, out1, syncVars, fund_mapping, portfolio_funds>>

NextDiff == Diff \/ AppendAndDiff

SpecDiff == InitDiff /\ [][NextDiff]_vars

(***************************************************************************)
(* Claims about get_diff (SpecDiff)                                        *)
(***************************************************************************)
\* the result of the latest get_diff call, computed from the current old_acts
last_out == IF step = "rediffed" THEN out2 ELSE out1

\* the candidate's own identifier is in the synced-identifier set
IdDuplicate(c, olds) == transaction_id(c).ok /\ transaction_id(c).val \in synced_ids(olds)

\* some existing activity normalizes to the candidate's canonical transaction
LegacyDuplicate(c, olds) ==
    \E j \in 1..Len(olds) :
        format_existing_act(olds[j]).ok /\ format_existing_act(olds[j]) = format_new_act(c)

IsNew(c) == ~IdDuplicate(c, old_acts) /\ ~LegacyDuplicate(c, old_acts)

\* C1: re-running get_diff after appending its result to the existing
\* activities completes and returns the empty list.
C1_Idempotence == step = "rediffed" => out2 = Ok(<<>>)

\* C3: a candidate whose transactionId is in the synced-identifier set is
\* reported present whatever its other fields are, and is not in the result;
\* when every candidate is such a one the diff completes with the empty list
\* even if an existing activity cannot be normalized (no field is compared).
C3_FastPathPrecedence ==
    step # "input" =>
        /\ \A i \in 1..Len(new_acts) :
              IdDuplicate(new_acts[i], old_acts) =>
                  /\ is_act_present(new_acts[i], old_acts, synced_ids(old_acts)) = Ok(TRUE)
                  /\ last_out.ok => new_acts[i] \notin Range(last_out.val)
        /\ (\A i \in 1..Len(new_acts) : IdDuplicate(new_acts[i], old_acts)) => last_out = Ok(<<>>)

\* C3 witness: a tagged candidate differing in fee and quantity from the
\* tagged existing activity, behind an existing activity that cannot be
\* normalized, has been diffed away.
C3_Witness ==
    /\ step = "diffed" /\ new_acts = <<n_tagged>> /\ old_acts = <<o_flat_noid, o_tagged>>
    /\ format_new_act(n_tagged) # format_existing_act(o_tagged)
    /\ out1 = Ok(<<>>)

\* C4: a candidate not accepted by the identifier fast path is classified as
\* duplicate if and only if some existing activity normalizes to a canonical
\* transaction equal to the candidate's.
C4_LegacyFallback ==
    (step = "diffed" /\ Len(new_acts) = 1 /\ ~IdDuplicate(new_acts[1], old_acts)) =>
        (out1 = Ok(<<>>) <=> LegacyDuplicate(new_acts[1], old_acts))

\* C5: get_diff returns exactly the candidates that are neither
\* identifier-duplicates nor legacy-field-equal to an existing activity, in
\* input order and with their multiplicity.
C5_DiffIsFilter == step = "diffed" => out1 = Ok(SelectSeq(new_acts, IsNew))

(***************************************************************************)
(* SpecNorm: the two normalizers applied to one ledger-shaped and one      *)
(* candidate-shaped activity                                               *)
(***************************************************************************)
\* "2024-01-01": a date without time of day
DateOnly == SubSeq(DayPrefix, 1, 10)

Optional(field, values) == {EmptyDict} \cup {[k \in {field} |-> v] : v \in values}

NormOldActs ==
    {Fields(d, Num(0), q, EmptyDict) @@ i @@ sp @@ fs @@ c :
        d  \in {zulu(0), zulu(5), zulu(10), DateOnly},
        q  \in {Str(<<"-", "5", ".", "0">>), Num(5000)},
        i  \in Optional("id", {"id1"}),
        sp \in Optional("SymbolProfile", {[name |-> "fund"], [name |-> "fund", symbol |-> ""],
                                          [name |-> "fund", symbol |-> "GF_KOURABTC"]}),
        fs \in Optional("symbol", {"", "GF_KOURAFI"}),
        c  \in Optional("comment", {C_plain})}

NormNewActs ==
    {Fields(d, f, q, EmptyDict) @@ fs :
        d  \in {isoformat(0), isoformat(5), isoformat(10), isoformat(60)},
        f  \in {Num(0), Str(<<"0">>)},
        q  \in {Num(5000), Num(-5000)},
        fs \in Optional("symbol", {"GF_KOURABTC"})}

InitNorm ==
    /\ SyncIdle
    /\ old_acts \in {<<a>> : a \in NormOldActs}
    /\ new_acts \in {<<a>> : a \in NormNewActs}
    /\ step = "input" /\ out1 = NotRun /\ out2 = NotRun

FormatExisting ==
    /\ step = "input"
    /\ out1' = format_existing_act(old_acts[1])
    /\ step' = "existing"
    /\ UNCHANGED <<old_acts, new_acts, out2, syncVars, fund_mapping, portfolio_funds>>

FormatNew ==
    /\ step = "existing"
    /\ out2' = format_new_act(new_acts[1])
    /\ step' = "both"
    /\ UNCHANGED <<old_acts, new_acts, out1, syncVars, fund_mapping, portfolio_funds>>

NextNorm == FormatExisting \/ FormatNew

SpecNorm == InitNorm /\ [][NextNorm]_vars

\* the symbol the ledger-path normalizer is to resolve: nested if present
\* and non-empty, else the flat field, else the empty string
ResolvedSymbol(act) ==
    IF Has(act, "SymbolProfile") /\ Has(act.SymbolProfile, "symbol") /\ act.SymbolProfile.symbol # ""
    THEN act.SymbolProfile.symbol
    ELSE IF Has(act, "symbol") THEN act.symbol ELSE ""

\* C8: format_existing_act returns a canonical transaction without raising
\* whether or not id, SymbolProfile, symbol and comment are present, with the
\* nested symbol, else the flat symbol, else the empty string.
C8_NormalizerTotal ==
    step # "input" => (out1.ok /\ out1.val.symbol = ResolvedSymbol(old_acts[1]))

\* the first n characters of the two timestamps are the same
SamePrefix(d1, d2, n) ==
    /\ Len(d1) >= n /\ Len(d2) >= n
    /\ \A i \in 1..n : d1[i] = d2[i]

\* C9 (as claimed): two timestamps with the same date, hour and minute
\* ("YYYY-MM-DDTHH:MM", 16 characters) normalize to the same date.
C9_MinuteGranularity ==
    (step = "both" /\ out1.ok /\ SamePrefix(old_acts[1].date, new_acts[1].date, 16)) =>
        out1.val.date = out2.val.date

\* C9 (amended): both normalizers keep exactly the first 18 characters of
\* date, which end with the tens digit of the seconds; two timestamps that
\* agree up to that digit normalize to the same date and, the other six
\* normalized fields being equal, to the same canonical transaction.
C9_TenSecondGranularity ==
    (step = "both" /\ out1.ok) =>
        LET d1 == old_acts[1].date
            d2 == new_acts[1].date
        IN  /\ Len(out1.val.date) = Min(18, Len(d1))
            /\ \A i \in 1..Len(out1.val.date) : out1.val.date[i] = d1[i]
            /\ Len(out2.val.date) = Min(18, Len(d2))
            /\ \A i \in 1..Len(out2.val.date) : out2.val.date[i] = d2[i]
            /\ SamePrefix(d1, d2, 18) =>
                  /\ out1.val.date = out2.val.date
                  /\ [out1.val EXCEPT !.date = <<>>] = [out2.val EXCEPT !.date = <<>>] => out1 = out2

\* C9 witness: timestamps 00:00:05Z and 00:00:00.000001 differ in the units
\* digit of the seconds and after it, and the two activities normalize to
\* the same canonical transaction.
C9_Witness ==
    /\ step = "both"
    /\ old_acts[1].date = zulu(5) /\ new_acts[1].date = isoformat(0)
    /\ out1.ok /\ out1 = out2

(***************************************************************************)
(* Fund snapshot reconstruction                                            *)
(***************************************************************************)
RECURSIVE IntToStr(_)
\* str(n) for an integer n >= 0
IntToStr(n) == IF n < 10 THEN <<Digits[n + 1]>> ELSE IntToStr(n \div 10) \o <<Digits[(n % 10) + 1]>>

\* the k low decimal digits of n, zero-padded
RECURSIVE PadDigits(_, _)
PadDigits(n, k) == IF k = 0 THEN <<>> ELSE PadDigits(n \div 10, k - 1) \o <<Digits[(n % 10) + 1]>>

\* f"{x:.4f}" for x >= 0 given in ten-thousandths
Fmt4(x) == IntToStr(x \div 10000) \o <<".">> \o PadDigits(x % 10000, 4)

\* value/units in ten-thousandths, to the nearest
Ratio4(value, units) ==
    (value \div units) * 10000 + (((value % units) * 10000 + (units \div 2)) \div units)

\* round(value, 2) of a value in thousandths: to the nearest hundredth, an
\* exact tie to the even one
Round2(value) ==
    LET q == value \div 10
        r == value % 10
    IN  10 * (IF r < 5 THEN q ELSE IF r > 5 THEN q + 1 ELSE IF q % 2 = 0 THEN q ELSE q + 1)

\* "810001" .. "810010"
Code(n) == IntToStr(810000 + n)

\* self.fund_mapping as __init__ seeds it
DefaultMapping ==
    (Code(1) :> "GF_KOURACASH") @@ (Code(2) :> "GF_KOURAFI") @@ (Code(3) :> "GF_KOURANZEQ")
    @@ (Code(4) :> "GF_KOURAUSEQ") @@ (Code(5) :> "GF_KOURAROWEQ") @@ (Code(6) :> "GF_KOURAEMEQ")
    @@ (Code(7) :> "GF_KOURABTC") @@ (Code(8) :> "GF_KOURACLEAN") @@ (Code(9) :> "GF_KOURAPROP")
    @@ (Code(10) :> "GF_KOURASTRAT")

\* symbol_mapping tables a mapping file may hold: none, a new code, and an
\* entry left without a symbol
CustomMappings == {EmptyDict, IntToStr(999) :> "GF_CUSTOM", Code(7) :> ""}

\* dict.update: the entries of custom override those of mapping
Update(mapping, custom) == custom @@ mapping

ghost_currency == "NZD"

\* str(fund.get('fundId') or fund.get('code', ''))
fund_code(fund) ==
    IF Has(fund, "fundId") /\ fund.fundId # 0 THEN IntToStr(fund.fundId)
    ELSE IF Has(fund, "code") THEN fund.code ELSE <<>>

Get(d, k, default) == IF Has(d, k) THEN d[k] ELSE default

holding_comment(units, value) ==
    <<"C", "u", "r", "r", "e", "n", "t", " ", "h", "o", "l", "d", "i", "n", "g", "s", ":", " ">>
    \o Fmt4(units * 10) \o <<" ", "u", "n", "i", "t", "s", " ", "@", " ", "$">>
    \o Fmt4(Ratio4(value, units)) \o <<" ", "p", "e", "r", " ", "u", "n", "i", "t">>

\* the loop body skipping on the value alone
holding_activity_value_only(fund, mapping, today) ==
    LET units  == Get(fund, "units", 0)
        value  == Get(fund, "value", 0)
        code   == fund_code(fund)
    IN  IF value <= 0 \/ ~Has(mapping, code) \/ mapping[code] = "" THEN None
        ELSE Ok([accountId |-> NoAccount, comment |-> C_plain, currency |-> ghost_currency,
                 dataSource |-> "MANUAL", date |-> today, fee |-> Num(0),
                 quantity |-> Num(Round2(value)), symbol |-> mapping[code],
                 type |-> "BUY", unitPrice |-> Num(1000)])

\* one iteration of the loop of reconstruct_fund_purchases: the activity
\* appended for the holding, or None when the holding is skipped
holding_activity(fund, mapping, today) ==
    LET units  == Get(fund, "units", 0)
        value  == Get(fund, "value", 0)
        code   == fund_code(fund)
    IN  IF value <= 0 \/ units <= 0 THEN None
        ELSE IF ~Has(mapping, code) \/ mapping[code] = "" THEN None
        ELSE Ok([accountId  |-> NoAccount,
                 comment    |-> holding_comment(units, value),
                 currency   |-> ghost_currency,
                 dataSource |-> "MANUAL",
                 date       |-> today,
                 fee        |-> Num(0),
                 quantity   |-> Num(Round2(value)),
                 symbol     |-> mapping[code],
                 type       |-> "BUY",
                 unitPrice  |-> Num(1000)])

RECURSIVE reconstruct_until_skip(_, _, _)
\* the loop leaving at the first holding it skips
reconstruct_until_skip(funds, mapping, today) ==
    IF funds = <<>> THEN <<>>
    ELSE LET a == holding_activity(Head(funds), mapping, today)
         IN  IF a.ok THEN <<a.val>> \o reconstruct_until_skip(Tail(funds), mapping, today) ELSE <<>>

RECURSIVE reconstruct_fund_purchases(_, _, _)
reconstruct_fund_purchases(funds, mapping, today) ==
    IF funds = <<>> THEN <<>>
    ELSE LET a == holding_activity(Head(funds), mapping, today)
         IN  (IF a.ok THEN <<a.val>> ELSE <<>>)
             \o reconstruct_fund_purchases(Tail(funds), mapping, today)

(***************************************************************************)
(* SpecRecon: reconstruct_fund_purchases applied to bounded holdings       *)
(***************************************************************************)
Holding(parts) == [name |-> "fund"] @@ parts

\* holdings of a mapped fund, with units and value present, absent, zero,
\* negative, and values that round down, up and to even
SkipRuleHoldings ==
    {Holding([fundId |-> 810001] @@ u @@ v) :
        u \in Optional("units", {0, 100000}),
        v \in Optional("value", {0, -5000, 150000, 1236, 125})}

\* holdings worth 150.0 in 100 units whose code comes from fundId, from
\* code, from neither, and is mapped, unmapped or mapped to no symbol
CodeHoldings ==
    {Holding([units |-> 100000, value |-> 150000] @@ f @@ c) :
        f \in Optional("fundId", {0, 810007, 999}),
        c \in Optional("code", {Code(2)})}

HoldingPool == SkipRuleHoldings \cup CodeHoldings

MaxFunds == 2

InitRecon ==
    /\ InstanceIdle
    /\ fund_mapping \in {Update(DefaultMapping, c) : c \in CustomMappings}
    /\ portfolio_funds \in SeqsUpTo(HoldingPool, MaxFunds)
    /\ old_acts = <<>> /\ new_acts = <<>>
    /\ step = "input" /\ out1 = NotRun /\ out2 = NotRun

Reconstruct ==
    /\ step = "input"
    /\ out1' = Ok(reconstruct_fund_purchases(portfolio_funds, fund_mapping, isoformat(clock)))
    /\ step' = "reconstructed"
    /\ UNCHANGED <<old_acts, new_acts, out2, syncVars, fund_mapping, portfolio_funds>>

\* a holding with no entry for its code, or without units or value
Incomplete(fund) ==
    ~Has(fund_mapping, fund_code(fund)) \/ ~Has(fund, "units") \/ ~Has(fund, "value")

Complete(fund) == ~Incomplete(fund)

\* the same call on the holdings without the incomplete ones
ReconstructComplete ==
    /\ step = "reconstructed"
    /\ portfolio_funds' = SelectSeq(portfolio_funds, Complete)
    /\ out2' = Ok(reconstruct_fund_purchases(SelectSeq(portfolio_funds, Complete),
                                            fund_mapping, isoformat(clock)))
    /\ step' = "complete"
    /\ UNCHANGED <<old_acts, new_acts, out1, syncVars, fund_mapping>>

NextRecon == Reconstruct \/ ReconstructComplete

SpecRecon == InitRecon /\ [][NextRecon]_vars

\* value > 0, units > 0 and a fund code present in the fund mapping
Qualifies(fund) ==
    /\ Has(fund, "value") /\ fund.value > 0
    /\ Has(fund, "units") /\ fund.units > 0
    /\ Has(fund_mapping, fund_code(fund))

\* ... and the mapping gives the code a non-empty symbol
QualifiesWithSymbol(fund) == Qualifies(fund) /\ fund_mapping[fund_code(fund)] # ""

\* the output is, in order, one BUY at 1.0 without fee per holding of funds
EmitsExactly(funds, acts) ==
    /\ Len(acts) = Len(funds)
    /\ \A i \in 1..Len(funds) :
          /\ acts[i].type = "BUY" /\ acts[i].unitPrice = Num(1000) /\ acts[i].fee = Num(0)
          /\ acts[i].quantity.t = "num"
          /\ acts[i].quantity.n % 10 = 0
          /\ 2 * Abs(acts[i].quantity.n - funds[i].value) <= 10
          /\ acts[i].symbol = fund_mapping[fund_code(funds[i])]

\* C6 (as claimed): exactly one activity, in input order, per holding with
\* value > 0, units > 0 and a fund code present in the fund mapping.
C6_OnePerMappedHolding ==
    step = "reconstructed" =>
        (out1.ok /\ EmitsExactly(SelectSeq(portfolio_funds, Qualifies), out1.val))

\* C6 (amended): exactly one activity, in input order, per holding with
\* value > 0, units > 0 and a fund code the mapping gives a non-empty symbol,
\* none for any other holding; each is a BUY at unitPrice 1.0, fee 0, with
\* the holding's value rounded to 2 decimals as quantity and the mapped symbol.
C6_OnePerHoldingWithSymbol ==
    step = "reconstructed" =>
        (out1.ok /\ EmitsExactly(SelectSeq(portfolio_funds, QualifiesWithSymbol), out1.val))

\* C6 witness: value=0, units=0 followed by value=150.0, units=100 of a
\* mapped fund gave one activity with quantity 150.0 and unitPrice 1.0.
C6_Witness ==
    /\ step = "reconstructed"
    /\ portfolio_funds = <<Holding([fundId |-> 810001, units |-> 0, value |-> 0]),
                           Holding([fundId |-> 810001, units |-> 100000, value |-> 150000])>>
    /\ Len(out1.val) = 1
    /\ out1.val[1].quantity = Num(150000) /\ out1.val[1].unitPrice = Num(1000)
    /\ out1.val[1].symbol = "GF_KOURACASH"

Alphabet == <<"-", ".", "0", "1", "2", "3", "4", "5", "6", "7", "8", "9", ":", "T", "Z">>

Ord(c) == CHOOSE i \in 1..Len(Alphabet) : Alphabet[i] = c

RECURSIVE StrLeq(_, _)
\* s <= t for Python strings
StrLeq(s, t) ==
    IF s = <<>> THEN TRUE
    ELSE IF t = <<>> THEN FALSE
    ELSE IF Head(s) = Head(t) THEN StrLeq(Tail(s), Tail(t))
    ELSE Ord(Head(s)) < Ord(Head(t))

RECURSIVE sorted_by_date(_)
\* sorted(bulk, key=lambda x: x["date"]): stable
sorted_by_date(bulk) ==
    IF bulk = <<>> THEN <<>>
    ELSE LET rest == sorted_by_date(SubSeq(bulk, 1, Len(bulk) - 1))
             x    == bulk[Len(bulk)]
             k    == Cardinality({i \in 1..Len(rest) : StrLeq(rest[i].date, x.date)})
         IN  SubSeq(rest, 1, k) \o <<x>> \o SubSeq(rest, k + 1, Len(rest))

ChunkSize == 10

RECURSIVE generate_chunks_full_only(_, _)
\* the chunks of exactly n elements only
generate_chunks_full_only(lst, n) ==
    IF Len(lst) < n THEN <<>>
    ELSE <<SubSeq(lst, 1, n)>> \o generate_chunks_full_only(SubSeq(lst, n + 1, Len(lst)), n)

RECURSIVE generate_chunks(_, _)
generate_chunks(lst, n) ==
    IF lst = <<>> THEN <<>>
    ELSE <<SubSeq(lst, 1, Min(n, Len(lst)))>> \o generate_chunks(SubSeq(lst, n + 1, Len(lst)), n)

(***************************************************************************)
(* The ledger and the brokerage as sync_koura sees them                    *)
(***************************************************************************)
ghost_account_name == "Koura Wealth"

AccId(n) == <<"a", "c", "c">> \o IntToStr(n)

Account(n, balance) == [id |-> AccId(n), name |-> ghost_account_name, balance |-> balance]

\* an activity of an accepted import as the ledger lists it afterwards
StoredAct(a, n) ==
    [id |-> IntToStr(n), accountId |-> a.accountId, date |-> a.date, fee |-> a.fee,
     quantity |-> a.quantity, type |-> a.type, unitPrice |-> a.unitPrice,
     comment |-> a.comment,
     SymbolProfile |-> [symbol |-> a.symbol, name |-> "fund", currency |-> a.currency]]

StoredActs(acts, n) == [i \in 1..Len(acts) |-> StoredAct(acts[i], n + i)]

Req(kind, ok) == [kind |-> kind, ok |-> ok]

Issue(kind, ok) == reqs' = Append(reqs, Req(kind, ok))

\* the holdings the brokerage may report
SyncHoldings ==
    {Holding([fundId |-> 810001, units |-> 100000, value |-> 150000]),
     Holding([fundId |-> 810007, units |-> 0,      value |-> 0])}

MaxPasses == 2

\* the clock advances in steps of five seconds, MaxClock times at most
MaxClock == 2

Seconds(ticks) == 5 * ticks

\* transactions the brokerage holds for the account
MaxTransactions == 1

page_size == 100

(***************************************************************************)
(* Spec: passes of sync_koura against the brokerage and the ledger         *)
(***************************************************************************)
Init ==
    /\ pc = "idle" /\ pass = 0 /\ clock = 0
    /\ account_id = NoAccount /\ koura_token = ""
    /\ config = TokenSupplied /\ ghost_token = "tok"
    /\ ledger_accounts \in {<<>>, <<Account(1, 500000)>>}
    /\ ledger_acts = <<>>
    /\ activities = <<>> /\ existing_acts = <<>> /\ diff = <<>>
    /\ page = 1 /\ all_transactions = 0
    /\ chunks = <<>> /\ reqs = <<>> /\ history = <<>>
    /\ fund_mapping = DefaultMapping
    /\ portfolio_funds \in SeqsUpTo(SyncHoldings, MaxFunds)
    /\ old_acts = <<>> /\ new_acts = <<>>
    /\ step = "input" /\ out1 = NotRun /\ out2 = NotRun

\* no method assigns self.ghost_token or self.fund_mapping
Keep == UNCHANGED <<config, ghost_token, fund_mapping, portfolio_funds, pureVars>>

locals == <<activities, existing_acts, diff, page, all_transactions, chunks>>

\* the locals of sync_koura are gone once it has returned
DropLocals ==
    /\ activities' = <<>> /\ existing_acts' = <<>> /\ diff' = <<>>
    /\ page' = 1 /\ all_transactions' = 0 /\ chunks' = <<>>

\* time passes between two passes (a pass reads the clock once)
Tick ==
    /\ pc \in {"idle", "done", "crashed"}
    /\ clock < MaxClock
    /\ clock' = clock + 1
    /\ UNCHANGED <<pc, pass, account_id, koura_token, ledger_accounts, ledger_acts,
                   locals, reqs, history>>
    /\ Keep

\* sync_koura is called: on the same instance, or (fresh) after main.py
\* constructed a new one from the token it was given
StartPass ==
    /\ pc \in {"idle", "done", "crashed"} /\ pass < MaxPasses
    /\ \E fresh \in BOOLEAN :
          /\ pc = "crashed" => fresh
          /\ fresh => config.ghost_token \notin {"", NoToken}
          /\ account_id' = IF fresh THEN NoAccount ELSE account_id
          /\ koura_token' = IF fresh THEN "" ELSE koura_token
    /\ pass' = pass + 1 /\ pc' = "auth"
    /\ reqs' = <<>>
    /\ history' = Append(history, [diff |-> NotRun, accepted |-> <<>>])
    /\ UNCHANGED <<clock, ledger_accounts, ledger_acts, locals>>
    /\ Keep

\* authenticate_koura
Authenticate ==
    /\ pc = "auth"
    /\ \E ok \in BOOLEAN :
          /\ Issue("koura_signin", ok)
          /\ koura_token' = IF ok THEN "jwt" ELSE koura_token
          /\ pc' = IF ok THEN "account" ELSE "done"
    /\ UNCHANGED <<pass, clock, account_id, ledger_accounts, ledger_acts, locals, history>>
    /\ Keep

\* create_or_get_koura_accountId up to its call of create_koura_account
GetAccounts ==
    /\ pc = "account"
    /\ IF account_id # NoAccount
       THEN /\ pc' = IF account_id = <<>> THEN "done" ELSE "details"
            /\ UNCHANGED <<account_id, reqs>>
       ELSE \E resp \in {"200", "exception", "error"} :
               LET accounts == IF resp = "200" THEN ledger_accounts ELSE <<>>
                   named    == {i \in 1..Len(accounts) : accounts[i].name = ghost_account_name}
               IN  /\ Issue("ghost_accounts", resp = "200")
                   /\ IF resp = "error" THEN pc' = "crashed" /\ UNCHANGED account_id
                      ELSE IF named # {}
                      THEN /\ account_id' = accounts[CHOOSE i \in named : \A j \in named : i <= j].id
                           /\ pc' = "details"
                      ELSE pc' = "create" /\ UNCHANGED account_id
    /\ UNCHANGED <<pass, clock, koura_token, ledger_accounts, ledger_acts, locals, history>>
    /\ Keep

\* create_koura_account and the return of create_or_get_koura_accountId
CreateAccount ==
    /\ pc = "create"
    /\ \E ok \in BOOLEAN :
          /\ Issue("ghost_create_account", ok)
          /\ IF ok
             THEN /\ ledger_accounts' = Append(ledger_accounts, Account(Len(ledger_accounts) + 1, 0))
                  /\ account_id' = AccId(Len(ledger_accounts) + 1)
                  /\ pc' = "details"
             ELSE /\ account_id' = <<>>
                  /\ pc' = "done"
                  /\ UNCHANGED ledger_accounts
    /\ UNCHANGED <<pass, clock, koura_token, ledger_acts, locals, history>>
    /\ Keep

\* get_koura_account_details
GetAccountDetails ==
    /\ pc = "details"
    /\ \E ok \in BOOLEAN :
          /\ Issue("koura_account", ok)
          /\ pc' = IF ok THEN "funds" ELSE "done"
    /\ UNCHANGED <<pass, clock, account_id, koura_token, ledger_accounts, ledger_acts,
                   locals, history>>
    /\ Keep

\* get_koura_portfolio_funds
GetPortfolioFunds ==
    /\ pc = "funds"
    /\ \E ok \in BOOLEAN :
          /\ Issue("koura_funds", ok)
          /\ pc' = IF ok /\ portfolio_funds # <<>> THEN "transactions" ELSE "done"
    /\ UNCHANGED <<pass, clock, account_id, koura_token, ledger_accounts, ledger_acts,
                   locals, history>>
    /\ Keep

\* one iteration of the loop of get_all_koura_transactions; the brokerage
\* answers with the next page of its MaxTransactions transactions
GetTransactionsPage ==
    /\ pc = "transactions"
    /\ \E ok \in BOOLEAN :
          LET n          == IF ok THEN Min(page_size, MaxTransactions - all_transactions) ELSE 0
              totalCount == IF ok THEN MaxTransactions ELSE 0
          IN  /\ Issue("koura_transactions", ok)
              /\ all_transactions' = all_transactions + n
              /\ IF all_transactions + n >= totalCount
                 THEN pc' = "reconstruct" /\ UNCHANGED page
                 ELSE page' = page + 1 /\ UNCHANGED pc
    /\ UNCHANGED <<pass, clock, account_id, koura_token, ledger_accounts, ledger_acts,
                   activities, existing_acts, diff, chunks, history>>
    /\ Keep

\* reconstruct_fund_purchases and the loop setting accountId
ReconstructPurchases ==
    /\ pc = "reconstruct"
    /\ LET acts == reconstruct_fund_purchases(portfolio_funds, fund_mapping,
                                               isoformat(Seconds(clock)))
       IN  activities' = [i \in 1..Len(acts) |-> [acts[i] EXCEPT !.accountId = account_id]]
    /\ pc' = "existing"
    /\ UNCHANGED <<pass, clock, account_id, koura_token, ledger_accounts, ledger_acts,
                   existing_acts, diff, page, all_transactions, chunks, reqs, history>>
    /\ Keep

\* get_all_acts_for_account, get_diff and the branch on its result
GetExistingAndDiff ==
    /\ pc = "existing"
    /\ \E ok \in BOOLEAN :
          LET listed == IF ok THEN SelectSeq(ledger_acts, LAMBDA a : a.accountId = account_id)
                        ELSE <<>>
              d      == get_diff(listed, activities)
          IN  /\ Issue("ghost_orders", ok)
              /\ history' = [history EXCEPT ![pass].diff = d]
              /\ IF ~d.ok THEN pc' = "crashed" /\ DropLocals
                 ELSE /\ existing_acts' = listed
                      /\ diff' = d.val
                      /\ chunks' = generate_chunks(sorted_by_date(d.val), ChunkSize)
                      /\ pc' = IF d.val = <<>> THEN "cash" ELSE "import"
                      /\ UNCHANGED <<activities, page, all_transactions>>
    /\ UNCHANGED <<pass, clock, account_id, koura_token, ledger_accounts, ledger_acts>>
    /\ Keep

\* the loop of import_act ending the pass when a chunk is refused
ImportChunk_ending_pass ==
    /\ pc = "import"
    /\ \E ok \in BOOLEAN :
          /\ Issue("ghost_import", ok)
          /\ IF ok
             THEN /\ ledger_acts' = ledger_acts \o StoredActs(Head(chunks), Len(ledger_acts))
                  /\ history' = [history EXCEPT ![pass].accepted = @ \o Head(chunks)]
                  /\ chunks' = Tail(chunks)
                  /\ pc' = IF Tail(chunks) = <<>> THEN "cash" ELSE "import"
                  /\ UNCHANGED <<activities, existing_acts, diff, page, all_transactions>>
             ELSE /\ pc' = "done"
                  /\ DropLocals
                  /\ UNCHANGED <<ledger_acts, history>>
    /\ UNCHANGED <<pass, clock, account_id, koura_token, ledger_accounts>>
    /\ Keep

\* one iteration of the loop of import_act
ImportChunk ==
    /\ pc = "import"
    /\ \E ok \in BOOLEAN :
          /\ Issue("ghost_import", ok)
          /\ IF ok
             THEN /\ ledger_acts' = ledger_acts \o StoredActs(Head(chunks), Len(ledger_acts))
                  /\ history' = [history EXCEPT ![pass].accepted = @ \o Head(chunks)]
                  /\ chunks' = Tail(chunks)
                  /\ pc' = IF Tail(chunks) = <<>> THEN "cash" ELSE "import"
             ELSE /\ pc' = "cash"
                  /\ UNCHANGED <<ledger_acts, history, chunks>>
    /\ UNCHANGED <<pass, clock, account_id, koura_token, ledger_accounts,
                   activities, existing_acts, diff, page, all_transactions>>
    /\ Keep

\* set_cash_to_account(account_id, {ghost_currency: 0}) and the return of sync_koura
SetCash ==
    /\ pc = "cash"
    /\ \E ok \in BOOLEAN :
          /\ Issue("ghost_cash", ok)
          /\ ledger_accounts' =
                IF ok THEN [i \in 1..Len(ledger_accounts) |->
                               IF ledger_accounts[i].id = account_id
                               THEN [ledger_accounts[i] EXCEPT !.balance = 0]
                               ELSE ledger_accounts[i]]
                ELSE ledger_accounts
    /\ pc' = "done"
    /\ DropLocals
    /\ UNCHANGED <<pass, clock, account_id, koura_token, ledger_acts, history>>
    /\ Keep

Next ==
    \/ Tick \/ StartPass \/ Authenticate \/ GetAccounts \/ CreateAccount
    \/ GetAccountDetails \/ GetPortfolioFunds \/ GetTransactionsPage
    \/ ReconstructPurchases \/ GetExistingAndDiff \/ ImportChunk \/ SetCash

Spec == Init /\ [][Next]_vars

(***************************************************************************)
(* Claims about sync_koura (Spec)                                          *)
(***************************************************************************)
\* the ledger lists activity a of an accepted import as e
IsStoredFormOf(e, a) == \E n \in 1..Len(ledger_acts) : e = StoredAct(a, n)

\* the first pass computed a diff and the ledger accepted all of it, and the
\* listing fetched by the running pass returns every one of those activities
FirstPassListed ==
    /\ history[1].diff.ok
    /\ history[1].accepted = history[1].diff.val
    /\ \A i \in 1..Len(history[1].accepted) :
          \E k \in 1..Len(existing_acts) : IsStoredFormOf(existing_acts[k], history[1].accepted[i])

\* C2: when the second pass, against the same holdings, lists every activity
\* the first pass imported, its diff is empty and it issues no import request,
\* whatever time has passed in between.
C2_Convergence ==
    (pass = 2 /\ pc \in {"import", "cash"} /\ FirstPassListed) =>
        /\ history[2].diff = Ok(<<>>)
        /\ \A i \in 1..Len(reqs) : reqs[i].kind # "ghost_import"

\* the requests whose failure is to abort the pass
AbortKinds ==
    {"koura_signin", "ghost_accounts", "ghost_create_account", "koura_account",
     "koura_funds", "ghost_orders"}

\* C7: after a failed request of the pass (authentication, account lookup or
\* creation, account details, holdings, listing of existing activities) the
\* pass issues no import request and no cash-balance update, and does not
\* repeat the failed request.
C7_FailureAborts ==
    \A i \in 1..Len(reqs) : \A j \in (i + 1)..Len(reqs) :
        (~reqs[i].ok /\ reqs[i].kind \in AbortKinds) =>
            /\ reqs[j].kind \notin {"ghost_import", "ghost_cash"}
            /\ reqs[j].kind # reqs[i].kind

(***************************************************************************)
(* SpecIds: the synced-identifier set, the extraction from a candidate and *)
(* the diff of a tagged candidate, on comments of every shape              *)
(***************************************************************************)
\* "transactionId=|transactionId=ZZZ|" : a marker without value ahead of one with
C_second_tag == Marker \o <<"|">> \o Marker \o ZZZ \o <<"|">>

\* "transactionId=ABC123|transactionId=ZZZ" : two identifiers
C_two_tags == Marker \o ABC123 \o <<"|">> \o Marker \o ZZZ

\* comment of an activity: absent (or null), empty, free text, a marker
\* without value, a marker at the end, and identifiers in every position
Comments ==
    Optional("comment", {<<>>, C_plain, C_malformed, Marker, C_existing_tag, C_candidate_tag,
                         C_other_tag, C_second_tag, C_two_tags})

\* ledger-shaped activities that differ in their comment only
IdOldPool == {Fields(zulu(0), Num(0), Num(7000), Nested("GF_KOURABTC")) @@ WithId("id5") @@ c : c \in Comments}

\* candidates equal to no existing activity in fee and quantity
IdNewPool == {Fields(isoformat(0), Num(1500), Num(9000), Flat("GF_KOURABTC")) @@ c : c \in Comments}

MaxIdOld == 2

InitIds ==
    /\ SyncIdle
    /\ old_acts \in SeqsUpTo(IdOldPool, MaxIdOld)
    /\ new_acts \in {<<a>> : a \in IdNewPool}
    /\ step = "input" /\ out1 = NotRun /\ out2 = NotRun

\* the first loop of get_diff
BuildIds ==
    /\ step = "input"
    /\ out1' = Ok(synced_ids(old_acts))
    /\ step' = "ids"
    /\ UNCHANGED <<old_acts, new_acts, out2, syncVars, fund_mapping, portfolio_funds>>

\* the extraction at the head of is_act_present
ExtractId ==
    /\ step = "ids"
    /\ out2' = transaction_id(new_acts[1])
    /\ step' = "extracted"
    /\ UNCHANGED <<old_acts, new_acts, out1, syncVars, fund_mapping, portfolio_funds>>

\* get_diff of the candidate against the existing activities
DiffTagged ==
    /\ step = "extracted"
    /\ out1' = get_diff(old_acts, new_acts)
    /\ step' = "matched"
    /\ UNCHANGED <<old_acts, new_acts, out2, syncVars, fund_mapping, portfolio_funds>>

NextIds == BuildIds \/ ExtractId \/ DiffTagged

SpecIds == InitIds /\ [][NextIds]_vars

\* "transactionId=" stands at position i of c and a non-pipe character follows
TagAt(c, i) ==
    /\ i + Len(Marker) <= Len(c)
    /\ \A k \in 1..Len(Marker) : c[i + k - 1] = Marker[k]
    /\ c[i + Len(Marker)] # "|"

\* v is the maximal run of non-pipe characters behind the first occurrence
\* of the marker in c that has such a run
IsIdOf(c, v) ==
    \E i \in 1..Len(c) :
        /\ TagAt(c, i) /\ \A k \in 1..(i - 1) : ~TagAt(c, k)
        /\ Len(v) >= 1 /\ i + Len(Marker) + Len(v) - 1 <= Len(c)
        /\ \A k \in 1..Len(v) : v[k] = c[i + Len(Marker) + k - 1] /\ v[k] # "|"
        /\ (i + Len(Marker) + Len(v) - 1 = Len(c) \/ c[i + Len(Marker) + Len(v)] = "|")

\* the substrings of c that begin right behind a marker
Runs(c) ==
    {SubSeq(c, i + Len(Marker), e) : i \in {k \in 1..Len(c) : TagAt(c, k)}, e \in 1..Len(c)}

\* the comment of act holds an identifier
Tagged(act) == Has(act, "comment") /\ \E i \in 1..Len(act.comment) : TagAt(act.comment, i)

\* the identifier held by the comment of act, if any
IdOf(act) ==
    IF Has(act, "comment") THEN {v \in Runs(act.comment) : IsIdOf(act.comment, v)} ELSE {}

\* the identifiers held by the comments of acts
IdsOf(acts) == UNION {IdOf(acts[j]) : j \in 1..Len(acts)}

\* C11: the synced-identifier set is built without error and is exactly the
\* set of identifiers held by the comments of the existing activities; an
\* activity whose comment is absent or has no marker followed by a non-pipe
\* character adds nothing to it.
C11_IdSetTolerant ==
    step \in {"ids", "extracted"} =>
        /\ out1 = Ok(IdsOf(old_acts))
        /\ out1.val = IdsOf(SelectSeq(old_acts, Tagged))
        /\ Cardinality(out1.val) <= Len(SelectSeq(old_acts, Tagged))

\* C11 witness: of an activity with a marker without value and one tagged
\* ABC123 only ABC123 is in the set.
C11_Witness ==
    /\ step = "ids"
    /\ Len(old_acts) = 2
    /\ Has(old_acts[1], "comment") /\ old_acts[1].comment = C_malformed
    /\ Has(old_acts[2], "comment") /\ old_acts[2].comment = C_existing_tag
    /\ out1 = Ok({ABC123})

\* C12: the identifier extracted from a candidate's comment is the maximal
\* non-empty run of non-pipe characters behind the first marker that has
\* one, and absence when the comment is absent or has none; existing
\* activities are read the same way: a candidate that no existing activity
\* equals field by field is diffed away exactly when its identifier is the
\* identifier of an existing activity.
C12_Extraction ==
    LET c == new_acts[1]
    IN  /\ step \in {"extracted", "matched"} =>
              /\ out2.ok => (Has(c, "comment") /\ IsIdOf(c.comment, out2.val))
              /\ ~out2.ok => (out2 = None /\ ~Tagged(c))
        /\ step = "matched" =>
              /\ out1.ok
              /\ out1 = Ok(<<>>) <=> (out2.ok /\ out2.val \in IdsOf(old_acts))
              /\ out1 # Ok(<<>>) => out1 = Ok(new_acts)

\* C12 witness: "note|transactionId=ABC123|more" on an existing activity and
\* "x|transactionId=ABC123" on the candidate both gave ABC123, and the
\* candidate was diffed away.
C12_Witness ==
    /\ step = "matched"
    /\ old_acts = <<Fields(zulu(0), Num(0), Num(7000), Nested("GF_KOURABTC")) @@ WithId("id5") @@ WithComment(C_existing_tag)>>
    /\ Has(new_acts[1], "comment") /\ new_acts[1].comment = C_candidate_tag
    /\ out2 = Ok(ABC123)
    /\ out1 = Ok(<<>>)

(***************************************************************************)
(* SpecPure: get_diff called twice on the same two lists                   *)
(***************************************************************************)
\* the call extending the existing activities by what it returns
get_diff_args_extended(olds, news) ==
    <<IF get_diff(olds, news).ok THEN olds \o get_diff(olds, news).val ELSE olds, news>>

\* the two argument lists as a call of get_diff leaves them: it assigns to
\* neither, nor to an activity in them, and to nothing outside its locals
get_diff_args(olds, news) == <<olds, news>>

CallDiff ==
    /\ step = "input"
    /\ out1' = get_diff(old_acts, new_acts)
    /\ old_acts' = get_diff_args(old_acts, new_acts)[1]
    /\ new_acts' = get_diff_args(old_acts, new_acts)[2]
    /\ step' = "diffed"
    /\ UNCHANGED <<out2, syncVars, fund_mapping, portfolio_funds>>

CallDiffAgain ==
    /\ step = "diffed"
    /\ out2' = get_diff(old_acts, new_acts)
    /\ old_acts' = get_diff_args(old_acts, new_acts)[1]
    /\ new_acts' = get_diff_args(old_acts, new_acts)[2]
    /\ step' = "repeated"
    /\ UNCHANGED <<out1, syncVars, fund_mapping, portfolio_funds>>

NextPure == CallDiff \/ CallDiffAgain

SpecPure == InitDiff /\ [][NextPure]_vars

DatePatterns == 0..2

\* a list of n activities told apart by their quantity
Bulk(n, k) ==
    [i \in 1..n |->
        [accountId |-> AccId(1), comment |-> C_plain, currency |-> ghost_currency,
         dataSource |-> "MANUAL", date |-> isoformat(Seconds((i * k) % 3)), fee |-> Num(0),
         quantity |-> Num(1000 * i), symbol |-> "GF_KOURACASH", type |-> "BUY",
         unitPrice |-> Num(1000)]]

\* longest list handed to import_act
MaxBulk == 21

\* POST /api/v1/import with its payload and whether it was answered 201
ImportReq(ok, acts) == [kind |-> "ghost_import", ok |-> ok, acts |-> acts]

InitImport ==
    /\ InstanceIdle
    /\ fund_mapping = DefaultMapping /\ portfolio_funds = <<>>
    /\ old_acts = <<>>
    /\ new_acts \in {Bulk(n, k) : n \in 0..MaxBulk, k \in DatePatterns}
    /\ step = "input" /\ out1 = NotRun /\ out2 = NotRun

\* import_act(bulk) up to its loop; with nothing to send it returns True
ImportStart ==
    /\ step = "input"
    /\ chunks' = generate_chunks(sorted_by_date(new_acts), ChunkSize)
    /\ IF chunks' = <<>> THEN step' = "returned" /\ out1' = Ok(TRUE)
       ELSE step' = "importing" /\ UNCHANGED out1
    /\ UNCHANGED <<pc, pass, clock, account_id, koura_token, config, ghost_token,
                   ledger_accounts, ledger_acts,
                   activities, existing_acts, diff, page, all_transactions, reqs, history,
                   old_acts, new_acts, out2, fund_mapping, portfolio_funds>>

\* one iteration of the loop of import_act, and its return
ImportSend ==
    /\ step = "importing"
    /\ \E resp \in {"201", "exception", "error"} :
          /\ reqs' = Append(reqs, ImportReq(resp = "201", Head(chunks)))
          /\ IF resp = "201"
             THEN /\ ledger_acts' = ledger_acts \o StoredActs(Head(chunks), Len(ledger_acts))
                  /\ chunks' = Tail(chunks)
                  /\ IF Tail(chunks) = <<>> THEN step' = "returned" /\ out1' = Ok(TRUE)
                     ELSE UNCHANGED <<step, out1>>
             ELSE /\ step' = "returned" /\ out1' = Ok(FALSE)
                  /\ UNCHANGED <<ledger_acts, chunks>>
    /\ UNCHANGED <<pc, pass, clock, account_id, koura_token, config, ghost_token,
                   ledger_accounts,
                   activities, existing_acts, diff, page, all_transactions, history,
                   old_acts, new_acts, out2, fund_mapping, portfolio_funds>>

NextImport == ImportStart \/ ImportSend

SpecImport == InitImport /\ [][NextImport]_vars

RECURSIVE Flatten(_)
\* the activities of a sequence of requests, in the order sent
Flatten(rs) == IF rs = <<>> THEN <<>> ELSE Flatten(SubSeq(rs, 1, Len(rs) - 1)) \o rs[Len(rs)].acts

\* number of chunks of at most ChunkSize that n activities make
ChunkCount(n) == (n + ChunkSize - 1) \div ChunkSize

\* C14: the requests carry the activities in non-decreasing date order,
\* ChunkSize to a request but for the last chunk of the list, no activity
\* twice and none sent before an earlier-dated one left behind; a request is
\* sent only after all before it were answered 201; import_act returns False
\* right after a request that raised or was not answered 201, and True
\* exactly when every chunk of the list was answered 201.
C14_ChunkedImport ==
    LET n    == Len(new_acts)
        sent == Flatten(reqs)
    IN  step # "input" =>
            /\ \A i \in 1..Len(reqs) :
                  /\ Len(reqs[i].acts) = Min(ChunkSize, n - ChunkSize * (i - 1))
                  /\ Len(reqs[i].acts) >= 1
                  /\ i < Len(reqs) => reqs[i].ok
            /\ \A i \in 1..Len(sent) : sent[i] \in Range(new_acts)
            /\ \A i \in 1..Len(sent) : \A j \in (i + 1)..Len(sent) :
                  sent[i] # sent[j] /\ StrLeq(sent[i].date, sent[j].date)
            /\ \A a \in Range(new_acts) \ Range(sent) : \A i \in 1..Len(sent) :
                  StrLeq(sent[i].date, a.date)
            /\ step = "importing" => (Len(reqs) < ChunkCount(n) /\ \A i \in 1..Len(reqs) : reqs[i].ok)
            /\ step = "returned" =>
                  /\ out1 \in {Ok(TRUE), Ok(FALSE)}
                  /\ out1 = Ok(TRUE) <=> (Len(reqs) = ChunkCount(n) /\ \A i \in 1..Len(reqs) : reqs[i].ok)
                  /\ out1 = Ok(FALSE) <=> (reqs # <<>> /\ ~reqs[Len(reqs)].ok)
                  /\ out1 = Ok(TRUE) => Len(sent) = n

\* C14 witness: 21 activities not in date order went out as 10, 10 and 1,
\* and import_act returned True.
C14_Witness ==
    /\ step = "returned" /\ out1 = Ok(TRUE)
    /\ Len(new_acts) = 21 /\ ~StrLeq(new_acts[2].date, new_acts[3].date)
    /\ Len(reqs) = 3
    /\ Len(reqs[1].acts) = 10 /\ Len(reqs[2].acts) = 10 /\ Len(reqs[3].acts) = 1

(***************************************************************************)
(* Claims about the requests of a pass (Spec)                              *)
(***************************************************************************)
\* positions in reqs of the requests of a kind
ReqsOf(kind) == {i \in 1..Len(reqs) : reqs[i].kind = kind}

\* C15: a pass issues an import request only after listing the existing
\* activities, and a cash-balance update only as its last request; a pass
\* that has ended issued exactly one cash-balance update if it listed the
\* existing activities (empty diff, import accepted or import refused) and
\* none otherwise; an accepted update leaves balance 0 on the resolved account.
C15_CashOncePerPass ==
    /\ Cardinality(ReqsOf("ghost_cash")) <= 1
    /\ \A i \in ReqsOf("ghost_cash") :
          i = Len(reqs) /\ pc = "done" /\ \E j \in ReqsOf("ghost_orders") : j < i
    /\ \A i \in ReqsOf("ghost_import") : \E j \in ReqsOf("ghost_orders") : j < i
    /\ (pc \in {"done", "crashed"}) =>
          (ReqsOf("ghost_orders") # {} <=> ReqsOf("ghost_cash") # {})
    /\ (pc = "done" /\ ReqsOf("ghost_cash") # {} /\ reqs[Len(reqs)].ok) =>
          /\ \E k \in 1..Len(ledger_accounts) : ledger_accounts[k].id = account_id
          /\ \A k \in 1..Len(ledger_accounts) :
                ledger_accounts[k].id = account_id => ledger_accounts[k].balance = 0

\* C15 witness: a pass whose import was refused ended with one accepted
\* cash-balance update on an account that held a balance.
C15_Witness ==
    /\ pc = "done" /\ pass = 1
    /\ \E i \in ReqsOf("ghost_import") : ~reqs[i].ok
    /\ Cardinality(ReqsOf("ghost_cash")) = 1 /\ reqs[Len(reqs)] = Req("ghost_cash", TRUE)
    /\ ledger_accounts = <<Account(1, 0)>>

(***************************************************************************)
(* SpecPages: get_all_koura_transactions against a brokerage that answers  *)
(* each page request as it likes                                           *)
(***************************************************************************)
\* most transactions on one page
MaxPageLen == 2

\* largest totalCount reported
MaxTotal == 3

\* most transactions the brokerage hands out over all pages of a call
MaxAll == 4

\* page numbers from MaxPage on are not told apart (nothing but the request
\* reads page)
MaxPage == 4

\* get_koura_transactions: the dict it returns for a response
PageResult(ok, n, total) ==
    IF ok THEN [transactions |-> n, totalCount |-> total]
    ELSE [transactions |-> 0, totalCount |-> 0]

InitPages ==
    /\ pc = "idle" /\ pass = 0 /\ clock = 0
    /\ account_id = NoAccount /\ koura_token \in {"", "jwt"}
    /\ config = TokenSupplied /\ ghost_token = "tok"
    /\ ledger_accounts = <<>> /\ ledger_acts = <<>>
    /\ activities = <<>> /\ existing_acts = <<>> /\ diff = <<>>
    /\ page = 1 /\ all_transactions = 0
    /\ chunks = <<>> /\ reqs = <<>> /\ history = <<>>
    /\ fund_mapping = DefaultMapping /\ portfolio_funds = <<>>
    /\ old_acts = <<>> /\ new_acts = <<>>
    /\ step = "input" /\ out1 = NotRun /\ out2 = NotRun

\* one iteration of the loop of get_all_koura_transactions: a call of
\* get_koura_transactions (signing in first when there is no token), the
\* extension of all_transactions, the test and page += 1 or the return
GetPage ==
    /\ step \in {"input", "paging"}
    /\ \E signin \in BOOLEAN, ok \in BOOLEAN, n \in 0..MaxPageLen, total \in 0..MaxTotal :
          LET result == PageResult(ok, n, total)
          IN  /\ all_transactions + result.transactions <= MaxAll
              /\ koura_token' = IF koura_token = "" /\ signin THEN "jwt" ELSE koura_token
              /\ out2' = Ok(result)
              /\ all_transactions' = all_transactions + result.transactions
              /\ IF all_transactions + result.transactions >= result.totalCount
                 THEN step' = "returned" /\ out1' = Ok(all_transactions') /\ UNCHANGED page
                 ELSE step' = "paging" /\ page' = Min(page + 1, MaxPage) /\ UNCHANGED out1
    /\ UNCHANGED <<pc, pass, clock, account_id, config, ghost_token,
                   ledger_accounts, ledger_acts,
                   activities, existing_acts, diff, chunks, reqs, history,
                   old_acts, new_acts, fund_mapping, portfolio_funds>>

NextPages == GetPage

\* every request is answered or raises, and the loop goes on
SpecPages == InitPages /\ [][NextPages]_vars /\ WF_vars(GetPage)

\* C16: get_all_koura_transactions returns, whatever the brokerage answers.
C16_PaginationTerminates == <>(step = "returned")

\* the ledger's accounts named ghost_account_name
NamedAccounts == {i \in 1..Len(ledger_accounts) : ledger_accounts[i].name = ghost_account_name}

\* C17: create_or_get_koura_accountId goes on to create an account only when
\* the ledger holds none named ghost_account_name, the account-list request
\* failing in transit included; so the ledger never holds two of them.
C17_NoDuplicateAccount ==
    /\ pc = "create" => NamedAccounts = {}
    /\ Cardinality(NamedAccounts) <= 1

(***************************************************************************)
(* SpecToken: SyncKoura(...) is constructed from the configuration, then   *)
(* passes of sync_koura run on the instance                                *)
(***************************************************************************)
\* ghost_key and ghost_token of the environment: each set or not, and a
\* caller handing None as token
Configs == [ghost_key : {"", "key"}, ghost_token : {"", "tok", NoToken}]

\* answers to POST /api/v1/auth/anonymous: a token, an empty token, another
\* status, no answer
TokenResponses == {"201", "201_empty", "error", "exception"}

\* create_ghost_token: the authToken of a 201 answer, else ""
create_ghost_token(resp) == IF resp = "201" THEN "fetched" ELSE ""

\* the test forgetting the empty string
token_provided_not_none(token) == token # NoToken

\* __init__ goes on when self.ghost_token is neither None nor ""
token_provided(token) == ~(token = NoToken \/ token = "")

InitToken ==
    /\ pc = "new" /\ pass = 0 /\ clock = 0
    /\ account_id = NoAccount /\ koura_token = ""
    /\ config \in Configs /\ ghost_token = ""
    /\ ledger_accounts \in {<<>>, <<Account(1, 500000)>>}
    /\ ledger_acts = <<>>
    /\ activities = <<>> /\ existing_acts = <<>> /\ diff = <<>>
    /\ page = 1 /\ all_transactions = 0
    /\ chunks = <<>> /\ reqs = <<>> /\ history = <<>>
    /\ fund_mapping = EmptyDict
    /\ portfolio_funds = <<Holding([fundId |-> 810001, units |-> 100000, value |-> 150000])>>
    /\ old_acts = <<>> /\ new_acts = <<>>
    /\ step = "input" /\ out1 = NotRun /\ out2 = NotRun

\* SyncKoura.__init__
Construct ==
    /\ pc = "new"
    /\ \E resp \in TokenResponses :
          LET fetch == config.ghost_token = "" /\ config.ghost_key # ""
              token == IF fetch THEN create_ghost_token(resp) ELSE config.ghost_token
          IN  /\ reqs' = IF fetch THEN Append(reqs, Req("ghost_auth", resp \in {"201", "201_empty"}))
                         ELSE reqs
              /\ IF token_provided(token)
                 THEN pc' = "idle" /\ ghost_token' = token /\ fund_mapping' = DefaultMapping
                 ELSE pc' = "raised" /\ UNCHANGED <<ghost_token, fund_mapping>>
    /\ UNCHANGED <<pass, clock, account_id, koura_token, config, ledger_accounts, ledger_acts,
                   locals, history, portfolio_funds, pureVars>>

NextToken == Construct \/ Next

SpecToken == InitToken /\ [][NextToken]_vars

\* C18: an instance that was constructed holds a non-empty token: the one
\* supplied, or the one fetched when none was supplied; construction asks the
\* ledger for a token exactly when the supplied token is empty and the key is
\* not, and never later; when it raises nothing was supplied or fetched and
\* no further request follows; and once constructed the token never changes.
C18_TokenInvariant ==
    /\ [](/\ pc \notin {"new", "raised"} =>
                /\ ghost_token \notin {"", NoToken}
                /\ ghost_token = IF config.ghost_token = "" THEN "fetched" ELSE config.ghost_token
          /\ (pc # "new" /\ pass = 0) =>
                /\ Cardinality(ReqsOf("ghost_auth")) <= 1
                /\ ReqsOf("ghost_auth") # {} <=> (config.ghost_token = "" /\ config.ghost_key # "")
          /\ pass > 0 => ReqsOf("ghost_auth") = {}
          /\ pc = "raised" =>
                /\ config.ghost_token \in {"", NoToken}
                /\ ghost_token = "" /\ pass = 0
                /\ \A i \in 1..Len(reqs) : reqs[i].kind = "ghost_auth"
          /\ (pc # "new" /\ config.ghost_token = "" /\ config.ghost_key = "") => pc = "raised")
    /\ [][pc # "new" => ghost_token' = ghost_token]_vars

\* C18 witness: an instance constructed with a key and no token fetched one
\* and ran a pass to its end with it.
C18_Witness ==
    /\ pc = "done" /\ pass = 1
    /\ config = [ghost_key |-> "key", ghost_token |-> ""]
    /\ ghost_token = "fetched"
    /\ ReqsOf("ghost_cash") # {}

====
